---- MODULE Spec2Model ----
(***************************************************************************)
(* A model of hifitime's Epoch (src/src/epoch.rs, src/src/lib.rs).         *)
(*                                                                         *)
(* The library is a set of pure functions over immutable values.  The      *)
(* state machine below is a call log: Init draws an input from bounded     *)
(* sets, and each action is one call of the public API, either on that     *)
(* input or on the value the previous call returned (a chain such as       *)
(* from_tai_seconds -> as_utc_seconds -> from_utc_seconds).                *)
(*                                                                         *)
(* Number encoding.  TLC integers are 32 bits wide, while the program's    *)
(* values (seconds since 1900 above 2^31, u64 nanoseconds) are not.  Every *)
(* quantity is therefore held in mixed radix, each limb below 2^31:        *)
(*   - a whole number of seconds (an f64 holding an integer below 2^53,    *)
(*     or an i64) is <<d, s>> = d * 86400 + s, 0 <= s < 86400, d signed;   *)
(*   - a u64 count of nanoseconds is <<d, s, n>> =                         *)
(*     (d * 86400 + s) * 10^9 + n,  0 <= s < 86400, 0 <= n < 10^9;         *)
(*   - a Duration {centuries: i16, nanoseconds: u64} is                    *)
(*     <<c, d, s, n>>, the u64 field being the limbs d, s, n; it is        *)
(*     normalized (nanoseconds < NS_PER_CENTURY) exactly when d < 36525.   *)
(* Values are tuples throughout, tagged by their first element.            *)
(* f64 sums and differences of whole seconds below 2^53 are exact, so they *)
(* are integer arithmetic on the limbs; the f64 products and the f64 sums  *)
(* with a fraction are rounded as f64 rounds them.                         *)
(***************************************************************************)
EXTENDS Integers, Sequences, FiniteSets, TLC

VARIABLES op, inp, out, prev

vars == <<op, inp, out, prev>>

---------------------------------------------------------------------------
(* Program constants *)

SECONDS_PER_DAY_I64 == 86400

DAYS_PER_CENTURY_I64 == 36525

NANOS_PER_SECOND == 1000000000

TT_OFFSET_MS == 32184

ET_OFFSET_US == 32184935

---------------------------------------------------------------------------
(* Whole seconds in mixed radix *)

Sec(d, s) == <<d, s>>

\* d days and s seconds, s of either sign, as a canonical <<d, s>>
SecNorm(d, s) ==
    <<d + (s \div SECONDS_PER_DAY_I64), s % SECONDS_PER_DAY_I64>>

SecOfInt(n) == SecNorm(0, n)

SecAdd(x, y) == SecNorm(x[1] + y[1], x[2] + y[2])

SecSub(x, y) == SecNorm(x[1] - y[1], x[2] - y[2])

\* x >= y on f64 whole seconds
SecGE(x, y) == x[1] > y[1] \/ (x[1] = y[1] /\ x[2] >= y[2])

\* x > y on f64 whole seconds
SecGT(x, y) == x[1] > y[1] \/ (x[1] = y[1] /\ x[2] > y[2])

\* The ET epoch, ET_EPOCH_S = 3_155_716_800 s = 36524 days + 43200 s
ET_EPOCH_S == Sec(36524, 43200)

\* SECONDS_GPS_TAI_OFFSET = 80 * 31_557_600 + 4 * 86_400 + 19 s = 29224 days + 19 s
SECONDS_GPS_TAI_OFFSET == Sec(29224, 19)

\* LEAP_SECONDS, each entry a whole number of days: 2_272_060_800 = 26297 * 86400, ...
LEAP_SECONDS ==
    << Sec(26297, 0), Sec(26479, 0), Sec(26663, 0), Sec(27028, 0),
       Sec(27393, 0), Sec(27758, 0), Sec(28124, 0), Sec(28489, 0),
       Sec(28854, 0), Sec(29219, 0), Sec(29766, 0), Sec(30131, 0),
       Sec(30496, 0), Sec(31227, 0), Sec(32141, 0), Sec(32872, 0),
       Sec(33237, 0), Sec(33784, 0), Sec(34149, 0), Sec(34514, 0),
       Sec(35063, 0), Sec(35610, 0), Sec(36159, 0), Sec(38716, 0),
       Sec(39812, 0), Sec(41089, 0), Sec(42184, 0), Sec(42734, 0) >>

JANUARY_YEARS ==
    { 1972, 1973, 1974, 1975, 1976, 1977, 1978, 1979, 1980, 1988, 1990,
      1991, 1996, 1999, 2006, 2009, 2017 }

JULY_YEARS == { 1972, 1981, 1982, 1983, 1985, 1992, 1993, 1994, 1997, 2012, 2015 }

USUAL_DAYS_PER_MONTH == << 31, 28, 31, 30, 31, 30, 31, 31, 30, 31, 30, 31 >>

---------------------------------------------------------------------------
(* Duration: the pair (centuries, nanoseconds), nanoseconds in limbs *)

Dur(c, d, s, n) == <<c, d, s, n>>

\* Carry nanoseconds into seconds, seconds into days, days into centuries
\* (Euclidean at every level, so the nanoseconds field ends in
\* [0, NS_PER_CENTURY) also for negative totals).
normalize(c, d, s, n) ==
    LET s1 == s + (n \div NANOS_PER_SECOND)
        d1 == d + (s1 \div SECONDS_PER_DAY_I64)
    IN  Dur(c + (d1 \div DAYS_PER_CENTURY_I64),
            d1 % DAYS_PER_CENTURY_I64,
            s1 % SECONDS_PER_DAY_I64,
            n % NANOS_PER_SECOND)

\* impl Add for Duration: field-wise sum with carry
DurAdd(a, b) == normalize(a[1] + b[1], a[2] + b[2], a[3] + b[3], a[4] + b[4])

\* impl Sub for Duration: field-wise difference with borrow
DurSub(a, b) == normalize(a[1] - b[1], a[2] - b[2], a[3] - b[3], a[4] - b[4])

ZERO == Dur(0, 0, 0, 0)

\* Unit::Day * n, Unit::Hour * n, ... for an i64 n
UnitDay(n) == normalize(0, n, 0, 0)

UnitHour(n) == normalize(0, 0, n * 3600, 0)

UnitMinute(n) == normalize(0, 0, n * 60, 0)

UnitSecond(n) == normalize(0, 0, n, 0)

UnitMillisecond(n) == normalize(0, 0, n \div 1000, (n % 1000) * 1000000)

UnitMicrosecond(n) == normalize(0, 0, n \div 1000000, (n % 1000000) * 1000)

UnitNanosecond(n) == normalize(0, 0, 0, n)

\* Unit::Second * x for a whole number of seconds x = <<d, s>> held in an i64
SecondsDur(x) == normalize(0, x[1], x[2], 0)

\* (a * b) % M for a and b in 0..(M - 1), M at most 2^17, within 32 bits
MulMod(a, b, M) == ((((a \div 256) * b) % M) * 256 + (a % 256) * b) % M

\* (w * 5^9) % M for w = <<d, s>> whole seconds of either sign
SecondsTimes5P9Mod(w, M) ==
    MulMod((MulMod(w[1] % M, SECONDS_PER_DAY_I64 % M, M) + w[2]) % M,
           1953125 % M, M)

\* The least whole numbers of seconds of at least 2^53, 2^54, ..., 2^76
\* nanoseconds; 2^61 ns are 26687 days and 86209.2 s
F64NsPow2Seconds ==
    << Sec(104, 21600), Sec(208, 43199), Sec(416, 86398),
       Sec(833, 86395), Sec(1667, 86389), Sec(3335, 86377),
       Sec(6671, 86353), Sec(13343, 86305), Sec(26687, 86210),
       Sec(53375, 86019), Sec(106751, 85637), Sec(213503, 84874),
       Sec(427007, 83348), Sec(854015, 80295), Sec(1708031, 74190),
       Sec(3416063, 61980), Sec(6832127, 37559), Sec(13664254, 75118),
       Sec(27328509, 63835), Sec(54657019, 41270), Sec(109314038, 82540),
       Sec(218628077, 78679), Sec(437256155, 70958), Sec(874512311, 55515) >>

\* The distance between neighbouring f64 values around m * 1e9 nanoseconds
\* (m whole seconds, m >= 0) where that is above 1: 2^(k - 52) for a number
\* of nanoseconds in [2^k, 2^(k + 1))
F64NsSpacing(m) ==
    2^Cardinality({ k \in 1..Len(F64NsPow2Seconds) : SecGE(m, F64NsPow2Seconds[k]) })

\* 2^24, 2^25, ..., 2^46 seconds (a Duration holds less than 2^47 s);
\* 2^31 s are 24855 days and 11648 s
Pow2Seconds ==
    << Sec(194, 15616), Sec(388, 31232), Sec(776, 62464),
       Sec(1553, 38528), Sec(3106, 77056), Sec(6213, 67712),
       Sec(12427, 49024), Sec(24855, 11648), Sec(49710, 23296),
       Sec(99420, 46592), Sec(198841, 6784), Sec(397682, 13568),
       Sec(795364, 27136), Sec(1590728, 54272), Sec(3181457, 22144),
       Sec(6362914, 44288), Sec(12725829, 2176), Sec(25451658, 4352),
       Sec(50903316, 8704), Sec(101806632, 17408), Sec(203613264, 34816),
       Sec(407226528, 69632), Sec(814453057, 52864) >>

\* The distance between neighbouring f64 values around m whole seconds
\* (m >= 0), in nanoseconds, as <<numerator, denominator>>: 2^(j - 52) s for
\* m in [2^j, 2^(j + 1)), which is 5^9 / 2^(43 - j) ns.  Below 2^24 s it is
\* given as 5^9 / 2^20 ns, under 2 ns.
F64SecondsGrid(m) ==
    LET j == 23 + Cardinality({ i \in 1..Len(Pow2Seconds) : SecGE(m, Pow2Seconds[i]) })
    IN  IF j >= 43 THEN <<1953125 * 2^(j - 43), 1>> ELSE <<1953125, 2^(43 - j)>>

\* Half the distance between neighbouring f64 values around m whole seconds
\* (m >= 0), in nanoseconds, rounded down: 238.4 ns from 2^31 s =
\* <<24855, 11648>> to 2^32 s.
HalfUlpNs(m) ==
    LET grid == F64SecondsGrid(m) IN grid[1] \div (2 * grid[2])

\* 2^53, 2^54, ..., 2^76 nanoseconds, less the whole seconds in them
F64NsPow2Nanos ==
    << 254740992, 509481984, 18963968, 37927936, 75855872, 151711744,
       303423488, 606846976, 213693952, 427387904, 854775808, 709551616,
       419103232, 838206464, 676412928, 352825856, 705651712, 411303424,
       822606848, 645213696, 290427392, 580854784, 161709568, 323419136 >>

\* x * Unit::Second for an f64 x of seconds: the f64 product x * 1e9, as
\* whole nanoseconds.  x is a whole number of seconds <<d, s>>, or the f64
\* nearest to d days, s seconds and n nanoseconds, <<d, s, n>>, of at least
\* 2^24 s either side of zero.  With m whole seconds and f nanoseconds the
\* magnitude, x is rho / den nanoseconds from m * 1e9 + f, on the grid of
\* the f64 seconds (of two equally near values the one an even number of
\* steps from m).  10^9 is 2^9 * 5^9, so the product of a whole number of
\* seconds is exact below 2^62 ns = 53375 days and 86018.4 s, where f64
\* values are at most 512 apart.  Where they are G apart the product is the
\* multiple of G nearest to x * 1e9, and of two equally near the even one:
\* tau is m * 1e9 + f modulo 2 * G.  From 2^53 ns on G is 2 or more and the
\* product a whole number of nanoseconds.
SecondsDurF64(x) ==
    LET Rem(f, num, p) ==
            IF p = 0 THEN f % num
            ELSE IF p <= 10 THEN ((f % 1953125) * 2^p) % 1953125
            ELSE ((((f % 1953125) * 1024) % 1953125) * 2^(p - 10)) % 1953125
        Rho(r, q, num) ==
            IF 2 * r < num THEN 0 - r
            ELSE IF 2 * r > num THEN num - r
            ELSE IF q % 2 = 0 THEN 0 - r ELSE num - r
        Clamp(d, lim) ==
            IF d > lim THEN lim ELSE IF d < 0 - lim THEN 0 - lim ELSE d
        Binades(m, f, rho, num, den) ==
            Cardinality({ k \in 1..Len(F64NsPow2Seconds) :
                \/ SecGE(m, F64NsPow2Seconds[k])
                \/ /\ SecAdd(m, Sec(0, 1)) = F64NsPow2Seconds[k]
                   /\ Clamp(f - F64NsPow2Nanos[k], num \div den + 1) * den + rho >= 0 })
        ToEven(down, rest, D) ==
            IF 2 * rest < D THEN down
            ELSE IF 2 * rest > D THEN down + D
            ELSE IF (down \div D) % 2 = 0 THEN down ELSE down + D
        Nearest(N, D) == ToEven(N - (N % D), N % D, D)
        Tau(m, f, G) ==
            ((IF G <= 256 THEN 0 ELSE 512 * SecondsTimes5P9Mod(m, G \div 256)) + f)
                % (2 * G)
        Adjust(tau, rho, den, G) == Nearest(tau * den + rho, G * den) \div den - tau
        Product(m, f, rho, den, G) == Adjust(Tau(m, f, G), rho, den, G)
        Spaced(m, f, rho, num, den) ==
            Product(m, f, rho, den, 2^Binades(m, f, rho, num, den))
        OnGrid(m, f, num, den) ==
            Spaced(m, f,
                   Rho(Rem(f, num, Cardinality({ i \in 1..20 : 2^i <= den })),
                       f \div num, num),
                   num, den)
        Magnitude(m, f, grid) == OnGrid(m, f, grid[1], grid[2])
        Whole(m, f) == Magnitude(m, f, F64SecondsGrid(m))
        Signed(n) ==
            IF x[1] >= 0 THEN n + Whole(Sec(x[1], x[2]), n)
            ELSE IF n = 0 THEN n - Whole(SecSub(Sec(0, 0), Sec(x[1], x[2])), 0)
            ELSE n - Whole(SecSub(Sec(0, -1), Sec(x[1], x[2])), NANOS_PER_SECOND - n)
    IN  normalize(0, x[1], x[2], Signed(IF Len(x) = 3 THEN x[3] ELSE 0))

\* Duration::in_seconds: the f64 it returns.  It is the one nearest to
\* seconds + n * 1e-9: a whole number of seconds <<d, s>> when the duration
\* is no further from it than half the f64 spacing there (from 2^31 s to
\* 2^32 s: n <= 238 or n >= 999_999_762), and otherwise the f64 nearest to
\* d days, s seconds and n nanoseconds, written <<d, s, n>>.
in_seconds(dur) ==
    LET w == Sec(dur[1] * DAYS_PER_CENTURY_I64 + dur[2], dur[3])
        up == SecAdd(w, Sec(0, 1))
        m == IF w[1] < 0 THEN SecSub(Sec(0, 0), up) ELSE w
    IN  IF dur[4] = 0 THEN w
        ELSE IF NANOS_PER_SECOND - dur[4] <= HalfUlpNs(m) THEN up
        ELSE IF dur[4] <= HalfUlpNs(m) THEN w
        ELSE <<w[1], w[2], dur[4]>>

\* Duration::to_parts: (centuries, nanoseconds as u64 limbs)
to_parts(dur) == << dur[1], <<dur[2], dur[3], dur[4]>> >>

---------------------------------------------------------------------------
(* Values passed between calls: <<kind, ...>> *)

None == <<"None">>

F64(x) == <<"F64", "finite", x>>

\* NaN or an infinity (the third element is a placeholder)
NonFinite(c) == <<"F64", c, <<0, 0>>>>

EpochVal(e) == <<"Epoch", e>>

Panic == <<"Panic">>

Ok(v) == <<"Ok", v>>

Err(e) == <<"Err", e>>

IntVal(i) == <<"Int", i>>

Kind(v) == v[1]

IsFinite(x) == x[2] = "finite"

---------------------------------------------------------------------------
(* Epoch *)

RECURSIVE leap_loop(_, _, _)
\* The loop of get_num_leap_seconds from table index i on, with count cnt
leap_loop(t, i, cnt) ==
    IF i > Len(LEAP_SECONDS) THEN cnt
    ELSE IF SecGE(t, LEAP_SECONDS[i])
         THEN leap_loop(t, i + 1, IF cnt = 0 THEN 10 ELSE cnt + 1)
         ELSE cnt

RECURSIVE leap_loop_gt(_, _, _)
leap_loop_gt(t, i, cnt) ==
    IF i > Len(LEAP_SECONDS) THEN cnt
    ELSE IF SecGT(t, LEAP_SECONDS[i])
         THEN leap_loop_gt(t, i + 1, IF cnt = 0 THEN 10 ELSE cnt + 1)
         ELSE cnt

RECURSIVE leap_loop_step2(_, _, _)
leap_loop_step2(t, i, cnt) ==
    IF i > Len(LEAP_SECONDS) THEN cnt
    ELSE IF SecGE(t, LEAP_SECONDS[i])
         THEN leap_loop_step2(t, i + 1, IF cnt = 0 THEN 10 ELSE cnt + 2)
         ELSE cnt

\* get_num_leap_seconds counting two for every entry after the first
get_num_leap_seconds_step2(e) == leap_loop_step2(in_seconds(e), 1, 0)

\* get_num_leap_seconds with > for >= (an entry counts one second late)
get_num_leap_seconds_gt(e) == leap_loop_gt(in_seconds(e), 1, 0)

get_num_leap_seconds(e) == leap_loop(in_seconds(e), 1, 0)

\* Epoch::from_tai_seconds: asserts the input finite, then seconds * Unit::Second
from_tai_seconds(x) ==
    IF ~IsFinite(x) THEN Panic ELSE EpochVal(SecondsDurF64(x[3]))

\* Epoch::from_utc_seconds
from_utc_seconds(x) ==
    LET e == from_tai_seconds(x)
    IN  IF Kind(e) = "Panic" THEN Panic
        ELSE EpochVal(DurAdd(e[2], UnitSecond(get_num_leap_seconds(e[2]))))

\* Epoch::as_utc_duration
as_utc_duration(e) == DurAdd(e, UnitSecond(-get_num_leap_seconds(e)))

\* Epoch::as_utc_seconds (as_utc(Unit::Second))
as_utc_seconds(e) == in_seconds(as_utc_duration(e))

\* Epoch::as_tai_seconds
as_tai_seconds(e) == in_seconds(e)

---------------------------------------------------------------------------
(* Gregorian calendar.  A date is g = <<year, month, day, hour, minute,   *)
(* second, nanos>>.                                                        *)

Abs(x) == IF x < 0 THEN 0 - x ELSE x

\* the % of i32: the remainder has the sign of the dividend
rem(a, b) ==
    IF a >= 0 \/ a % b = 0 THEN a % b ELSE (a % b) - b

\* is_leap_year without the rule of the centuries
is_leap_year_julian(year) == rem(year, 4) = 0

is_leap_year(year) ==
    (rem(year, 4) = 0 /\ rem(year, 100) # 0) \/ rem(year, 400) = 0

\* The leap years counted through the current year as well
LeapYearsThrough(year) ==
    Cardinality({ yy \in 1900..year : is_leap_year(yy) })

\* The number of leap years in 1900..year-1 (the loops `for year in 1900..year`)
LeapYearsSince1900(year) ==
    Cardinality({ yy \in 1900..(year - 1) : is_leap_year(yy) })

\* max_seconds allowing second 60 in every month, day, hour and minute of a
\* year with a leap second
max_seconds_any_minute(g) ==
    IF g[1] \in JULY_YEARS \/ (g[1] + 1) \in JANUARY_YEARS THEN 60 ELSE 59

\* max_seconds of is_gregorian_valid
max_seconds(g) ==
    LET year == g[1]  month == g[2]  day == g[3]  hour == g[4]  minute == g[5]
    IN  IF /\ (month = 12 \/ month = 6)
           /\ day = USUAL_DAYS_PER_MONTH[month]
           /\ hour = 23
           /\ minute = 59
           /\ \/ (month = 6 /\ year \in JULY_YEARS)
              \/ (month = 12 /\ (year + 1) \in JANUARY_YEARS)
        THEN 60 ELSE 59

is_gregorian_valid(g) ==
    LET year == g[1]  month == g[2]  day == g[3]  hour == g[4]
        minute == g[5]  second == g[6]  nanos == g[7]
    IN  IF \/ month = 0
           \/ month > 12
           \/ day = 0
           \/ day > 31
           \/ hour > 24
           \/ minute > 59
           \/ second > max_seconds(g)
           \/ nanos > NANOS_PER_SECOND
        THEN FALSE
        ELSE IF day > USUAL_DAYS_PER_MONTH[month]
                /\ (month # 2 \/ ~is_leap_year(year))
             THEN FALSE
             ELSE TRUE

RECURSIVE DaysBeforeMonth(_)
\* The days the loop `for month in 0..month - 1` adds
DaysBeforeMonth(month) ==
    IF month <= 1 THEN 0
    ELSE USUAL_DAYS_PER_MONTH[month - 1] + DaysBeforeMonth(month - 1)

\* What maybe_from_gregorian accumulates into seconds_wrt_1900 before it
\* looks at second == 60, for a date that passed the validity test
seconds_accumulated(g) ==
    LET year == g[1]  month == g[2]  day == g[3]  hour == g[4]
        minute == g[5]  second == g[6]  nanos == g[7]
        years == UnitDay(365 * Abs(year - 1900))
        leaps == DurAdd(years, UnitDay(LeapYearsSince1900(year)))
        months == DurAdd(leaps, UnitDay(DaysBeforeMonth(month)))
        feb == IF is_leap_year(year) /\ month > 2
               THEN DurAdd(months, UnitDay(1)) ELSE months
        rest == DurAdd(DurAdd(DurAdd(DurAdd(UnitDay(day - 1), UnitHour(hour)),
                                     UnitMinute(minute)),
                              UnitSecond(second)),
                       UnitNanosecond(nanos))
    IN  DurAdd(feb, rest)

\* seconds_wrt_1900 with second 60 left one second after second 59
seconds_wrt_1900_keep60(g) == seconds_accumulated(g)

\* seconds_wrt_1900 of maybe_from_gregorian: second 60 is moved back by one
\* second
seconds_wrt_1900(g) ==
    IF g[6] = 60 THEN DurSub(seconds_accumulated(g), UnitSecond(1))
    ELSE seconds_accumulated(g)

\* f64::sin at the whole degrees 0..90, in units of 2^-30
SineTable ==
    << 0, 18739379, 37473049, 56195305, 74900443, 93582766,
       112236583, 130856211, 149435979, 167970228, 186453311, 204879599,
       223243478, 241539355, 259761657, 277904834, 295963357, 313931728,
       331804471, 349576144, 367241333, 384794656, 402230767, 419544355,
       436730145, 453782903, 470697435, 487468587, 504091252, 520560366,
       536870912, 553017922, 568996477, 584801711, 600428808, 615873009,
       631129609, 646193961, 661061475, 675727625, 690187940, 704438018,
       718473518, 732290163, 745883746, 759250125, 772385229, 785285058,
       797945680, 810363241, 822533958, 834454122, 846120104, 857528349,
       868675383, 879557810, 890172315, 900515665, 910584710, 920376381,
       929887697, 939115760, 948057759, 956710970, 965072759, 973140576,
       980911966, 988384560, 995556083, 1002424350, 1008987269, 1015242840,
       1021189159, 1026824413, 1032146887, 1037154959, 1041847103, 1046221891,
       1050277989, 1054014162, 1057429273, 1060522280, 1063292242, 1065738315,
       1067859754, 1069655912, 1071126243, 1072270298, 1073087729, 1073578288,
       1073741824 >>

\* a * b for f64 a and b in [0, 1] given in units of 2^-30, in units of
\* 2^-30: the product of the 15-bit halves, to the nearest unit or the one
\* below
MulFix(a, b) ==
    LET ah == a \div 32768
        al == a % 32768
        bh == b \div 32768
        bl == b % 32768
    IN  ah * bh + (ah * bl + al * bh + (al * bl) \div 32768 + 16384) \div 32768

\* c times a sine s of either sign, both in units of 2^-30
SineTimes(s, c) == IF s < 0 THEN 0 - MulFix(0 - s, c) ELSE MulFix(s, c)

\* f64::sin of an angle given in millionths of a degree, in units of 2^-30:
\* SineTable at the nearest whole degree k and the addition theorem,
\* sin(k + d) = sin k * cos d + cos k * sin d, with sin d = d - d^3 / 6 and
\* 1 - cos d = d^2 / 2 - d^4 / 24 for the d of at most half a degree, which
\* is u millionths of a degree and 18.740330145 units of 2^-30 radians to
\* the millionth ((PI / 180.0) * 2^30 / 1e6); q is the angle in the first
\* quadrant, d2 the square of d, sd and cm are sin d and 1 - cos d.  It is
\* within 4 units of the f64 value.
sin(udeg) ==
    LET Sum(sk, ck, cm, sd, neg) ==
            IF neg THEN sk - MulFix(sk, cm) - MulFix(ck, sd)
            ELSE sk - MulFix(sk, cm) + MulFix(ck, sd)
        Series(k, d, d2, neg) ==
            Sum(SineTable[k + 1], SineTable[91 - k],
                (d2 - (MulFix(d2, d2) + 6) \div 12 + 1) \div 2,
                d - (MulFix(d2, d) + 3) \div 6, neg)
        Squares(k, d, neg) == Series(k, d, MulFix(d, d), neg)
        Radians(k, u, neg) ==
            Squares(k, u * 18 + (u * 740) \div 1000 + (u * 330) \div 1000000
                       + ((u * 145) \div 1000000 + 500) \div 1000, neg)
        Near(q, k) ==
            Radians(k, IF q < k * 1000000 THEN k * 1000000 - q ELSE q - k * 1000000,
                    q < k * 1000000)
        Quadrant(q) == Near(q, (q + 500000) \div 1000000)
        Half(h) == Quadrant(IF h > 90000000 THEN 180000000 - h ELSE h)
        Turn(r) == IF r >= 180000000 THEN 0 - Half(r % 180000000) ELSE Half(r)
    IN  Turn(udeg % 360000000)

\* g_rad of a TT duration <<c, d, s, n>> past J2000, in millionths of a
\* degree and less the whole turns: 357.528 degrees + 35_999.050 degrees per
\* century of 36_525 days.  A century is 99 turns and 359.05 degrees, 365
\* days are a turn less 0.256 degrees, a day 985_600 + 400 / 1461 millionths
\* and a second 11 + 128_569 / 315_576 millionths; the nanoseconds count by
\* their milliseconds.  The sum is rounded to the nearest millionth.
g_rad(tt_since_j2k) ==
    LET d == tt_since_j2k[2]
        s == tt_since_j2k[3]
        sa == s \div 1000
        secnum == sa * 129568 + (s % 1000) * 128569
        frac == ((d * 400) % 1461) * 216 + (secnum % 315576)
        milli == (frac * 1000) \div 315576
                 + ((tt_since_j2k[4] \div 1000000) * 11407) \div 1000
    IN  ( 357528000 - 950000 * tt_since_j2k[1]
          - (d \div 365) * 256000 + (d % 365) * 985600 + (d * 400) \div 1461
          + s * 11 + sa * 407 + secnum \div 315576
          + (milli + 500) \div 1000 ) % 360000000

\* inner = g_rad + 0.0167 * g_rad.sin(), in millionths of a degree: 0.0167
\* radians are 956_839.518 millionths of a degree
inner_of(tt_since_j2k) ==
    LET Shifted(g, a) ==
            g + (IF a < 0 THEN 0 - ((500 - a) \div 1000) ELSE (a + 500) \div 1000)
        Inner(g) == Shifted(g, SineTimes(sin(g), 956839518))
    IN  Inner(g_rad(tt_since_j2k))

\* 0.001_658 * inner.sin() seconds, in 512ths of a nanosecond:
\* 0.001_658 s are 848_896_000 of them
tdb_term(tt_since_j2k) == SineTimes(sin(inner_of(tt_since_j2k)), 848896000)

\* ((ET_EPOCH_S as f64) - term) * Unit::Second less ET_EPOCH_S, in
\* nanoseconds, for a term t512 in 512ths of a nanosecond.  The difference
\* is one f64 near 3.16e9 s, where f64 values are 2^-21 s = 5^9 / 2^12 ns
\* apart: ET_EPOCH_S and k of these steps, k the whole number nearest to
\* -t512 * 8 / 5^9.  Its product with 1e9 is an f64 number of nanoseconds
\* between 2^61 and 2^62, where f64 values are 512 ns apart, and
\* ET_EPOCH_S is a multiple of 512 ns: the product is ET_EPOCH_S and 512 ns
\* times the whole number nearest to k * 5^9 / 2^21 = k - k * 144_027 / 2^21.
EtLessTermNs(t512) ==
    LET m == IF t512 < 0 THEN 0 - t512 ELSE t512
        k == 8 * (m \div 1953125) + (16 * (m % 1953125) + 1953125) \div 3906250
        steps == k + (1048576 - k * 144027) \div 2097152
    IN  IF t512 < 0 THEN 512 * steps ELSE 0 - 512 * steps

\* Epoch::from_tdb_seconds_d; delta is what the term as the model computes
\* it is off by, in 512ths of a nanosecond
from_tdb_seconds_d(duration, delta) ==
    LET tt_duration == DurSub(duration, UnitMillisecond(TT_OFFSET_MS))
        tt_centuries_j2k == DurSub(tt_duration, SecondsDur(ET_EPOCH_S))
    IN  DurAdd(DurAdd(tt_duration, SecondsDur(ET_EPOCH_S)),
               UnitNanosecond(EtLessTermNs(tdb_term(tt_centuries_j2k) + delta)))

\* maybe_from_gregorian without the early return on invalid fields
maybe_from_gregorian_unchecked(g, ts, delta) ==
    LET s == seconds_wrt_1900(g)
    IN  IF ts = "UTC" THEN Panic
        ELSE IF ts = "TAI" THEN Ok(EpochVal(s))
        ELSE Ok(EpochVal(DurSub(s, UnitMillisecond(TT_OFFSET_MS))))

\* Epoch::maybe_from_gregorian
maybe_from_gregorian(g, ts, delta) ==
    IF ~is_gregorian_valid(g) THEN Err("Carry")
    ELSE LET s == seconds_wrt_1900(g)
         IN  CASE ts = "TAI" -> Ok(EpochVal(s))
               [] ts = "TT"  -> Ok(EpochVal(DurSub(s, UnitMillisecond(TT_OFFSET_MS))))
               [] ts = "ET"  -> Ok(EpochVal(DurSub(DurAdd(s, SecondsDur(ET_EPOCH_S)),
                                                   UnitMicrosecond(ET_OFFSET_US))))
               [] ts = "TDB" -> Ok(EpochVal(from_tdb_seconds_d(s, delta)))
               [] ts = "UTC" -> Panic

\* Epoch::maybe_from_gregorian_tai
maybe_from_gregorian_tai(g) == maybe_from_gregorian(g, "TAI", 0)

\* Epoch::maybe_from_gregorian_utc
maybe_from_gregorian_utc(g) ==
    LET if_tai == maybe_from_gregorian_tai(g)
    IN  IF Kind(if_tai) = "Err" THEN if_tai
        ELSE LET e == if_tai[2][2]
             IN  Ok(EpochVal(DurAdd(e, UnitSecond(get_num_leap_seconds(e)))))

RECURSIVE month_loop(_, _, _, _)
\* The loop of compute_gregorian that finds the month: <<month,
\* seconds_til_this_month in days>>; month 13 is the index past the table
month_loop(year, year_fraction, month, til) ==
    IF month > 12 THEN <<13, til>>
    ELSE LET til1 == til + USUAL_DAYS_PER_MONTH[month]
                         + (IF is_leap_year(year) /\ month = 2 THEN 1 ELSE 0)
         IN  IF SecGT(Sec(til1, 0), year_fraction) THEN <<month, til1>>
             ELSE month_loop(year, year_fraction, month + 1, til1)

\* Epoch::compute_gregorian on a whole number of seconds
compute_gregorian(absolute_seconds) ==
    LET year0 == (absolute_seconds[1] \div 365) + 1900
        fraction0 == Sec(absolute_seconds[1] % 365, absolute_seconds[2])
        year_fraction == Sec(fraction0[1] - LeapYearsSince1900(year0), fraction0[2])
        negative == year_fraction[1] < 0
        found == IF negative THEN <<12, 0>>
                 ELSE month_loop(year0, year_fraction, 1, 0)
        year1 == IF negative THEN year0 - 1 ELSE year0
        month1 == found[1]
        seconds_til_this_month == found[2]
    IN  IF month1 = 13 THEN Panic
        ELSE
        LET days_this_month ==
                USUAL_DAYS_PER_MONTH[month1]
                + (IF month1 = 2 /\ is_leap_year(year1) THEN 1 ELSE 0)
            month_fraction ==
                Sec((year_fraction[1] - seconds_til_this_month) % days_this_month,
                    year_fraction[2])
            day0 == month_fraction[1]
            day_fraction == month_fraction[2]
            month2 == IF day0 < 0
                      THEN (IF month1 - 1 = 0 THEN 12 ELSE month1 - 1)
                      ELSE month1
            year2 == IF day0 < 0 /\ month1 - 1 = 0 THEN year1 - 1 ELSE year1
            day == (IF day0 < 0 THEN USUAL_DAYS_PER_MONTH[month2] ELSE day0) + 1
            hours == day_fraction \div 3600
            hours_fraction == day_fraction % 3600
            mins == hours_fraction \div 60
            secs == hours_fraction % 60
        IN  <<"Greg", <<year2, month2, day, hours, mins, secs, 0>>>>

\* as_gregorian_utc reading the TAI seconds
as_gregorian_utc_tai(e) == compute_gregorian(as_tai_seconds(e))

\* Epoch::as_gregorian_utc
as_gregorian_utc(e) == compute_gregorian(as_utc_seconds(e))

\* Epoch::as_gregorian_tai
as_gregorian_tai(e) == compute_gregorian(as_tai_seconds(e))

\* impl Sub for Epoch: the Duration between two epochs
EpochSub(a, b) == DurSub(a, b)

---------------------------------------------------------------------------
(* The other scales *)

\* Epoch + Duration with the nanoseconds of the duration dropped
EpochAddWholeSeconds(e, d) == DurAdd(e, Dur(d[1], d[2], d[3], 0))

\* impl Add<Duration> for Epoch
EpochAdd(e, d) == DurAdd(e, d)

\* impl Sub<Duration> for Epoch
EpochSubDuration(e, d) == DurSub(e, d)

J1900_OFFSET == 15020

\* MJD_OFFSET: 2_400_000.5 days, as whole days and the seconds of the half day
MJD_OFFSET == <<2400000, 43200>>

HasEpoch(v) ==
    IF Kind(v) = "Epoch" THEN TRUE
    ELSE IF Kind(v) = "Ok" THEN Kind(v[2]) = "Epoch" ELSE FALSE

\* The Epoch of a value: the Epoch itself, or the Epoch inside Ok(_)
EpochOf(v) == IF Kind(v) = "Epoch" THEN v[2] ELSE v[2][2]

\* The integer an f64 holding a whole number below 86400 stands for
SmallInt(x) == x[3][2]

\* Epoch::from_tai_days on a whole number of days
from_tai_days(x) ==
    IF ~IsFinite(x) THEN Panic ELSE EpochVal(UnitDay(SmallInt(x)))

\* Epoch::from_utc_days on a whole number of days
from_utc_days(x) ==
    LET e == from_tai_days(x)
    IN  IF Kind(e) = "Panic" THEN Panic
        ELSE EpochVal(DurAdd(e[2], UnitSecond(get_num_leap_seconds(e[2]))))

\* Epoch::from_mjd_tai on a whole number of days
from_mjd_tai(x) ==
    IF ~IsFinite(x) THEN Panic
    ELSE EpochVal(UnitDay(SmallInt(x) - J1900_OFFSET))

\* Epoch::from_mjd_utc on a whole number of days
from_mjd_utc(x) ==
    LET e == from_mjd_tai(x)
    IN  IF Kind(e) = "Panic" THEN Panic
        ELSE EpochVal(DurAdd(e[2], UnitSecond(get_num_leap_seconds(e[2]))))

\* Epoch::from_jde_tai on a number of days x = <<d, s>>, d days and s
\* seconds of a day, s being 0 or 43200 (days - J1900_OFFSET - MJD_OFFSET
\* and its product with the nanoseconds of a day are exact in f64)
from_jde_tai(x) ==
    IF ~IsFinite(x) THEN Panic
    ELSE EpochVal(normalize(0, x[3][1] - J1900_OFFSET - MJD_OFFSET[1],
                            x[3][2] - MJD_OFFSET[2], 0))

\* Epoch::from_jde_utc
from_jde_utc(x) ==
    LET e == from_jde_tai(x)
    IN  IF Kind(e) = "Panic" THEN Panic
        ELSE EpochVal(DurAdd(e[2], UnitSecond(get_num_leap_seconds(e[2]))))

\* Epoch::from_tt_seconds
from_tt_seconds(x) ==
    IF ~IsFinite(x) THEN Panic
    ELSE EpochVal(DurSub(from_tai_seconds(x)[2], UnitMillisecond(TT_OFFSET_MS)))

\* Epoch::from_et_seconds
from_et_seconds(x) ==
    IF ~IsFinite(x) THEN Panic
    ELSE EpochVal(DurSub(DurAdd(from_tai_seconds(x)[2], SecondsDur(ET_EPOCH_S)),
                         UnitMicrosecond(ET_OFFSET_US)))

\* Epoch::from_tdb_seconds
from_tdb_seconds(x, delta) ==
    IF ~IsFinite(x) THEN Panic
    ELSE EpochVal(from_tdb_seconds_d(SecondsDurF64(x[3]), delta))

\* from_gpst_nanoseconds without the offset of the GPS epoch
from_gpst_nanoseconds_raw(k) == EpochVal(Dur(0, k[1], k[2], k[3]))

\* Epoch::from_gpst_nanoseconds: the raw Duration {0, k} plus the GPS
\* offset, for k + SECONDS_GPS_TAI_OFFSET nanoseconds within u64
from_gpst_nanoseconds(k) ==
    EpochVal(DurAdd(Dur(0, k[1], k[2], k[3]), SecondsDur(SECONDS_GPS_TAI_OFFSET)))

\* u64::MAX nanoseconds: 213_503 days, 84_873 s and 709_551_615 ns
U64_MAX == <<213503, 84873, 709551615>>

\* nanoseconds + SECONDS_GPS_TAI_OFFSET nanoseconds less 2^64
gpst_sum_less_2_64(k) ==
    DurSub(DurAdd(Dur(0, k[1], k[2], k[3]), SecondsDur(SECONDS_GPS_TAI_OFFSET)),
           DurAdd(Dur(0, U64_MAX[1], U64_MAX[2], U64_MAX[3]), UnitNanosecond(1)))

\* The outcomes of from_gpst_nanoseconds.  Where the sum of the two u64
\* nanosecond fields passes u64::MAX the addition panics or wraps around,
\* as the build has it.
from_gpst_nanoseconds_builds(k) ==
    IF gpst_sum_less_2_64(k)[1] >= 0
    THEN { Panic, EpochVal(gpst_sum_less_2_64(k)) }
    ELSE { from_gpst_nanoseconds(k) }

\* as_gpst_duration without the offset of the GPS epoch
as_gpst_duration_tai(e) == e

\* Epoch::as_gpst_duration
as_gpst_duration(e) == DurSub(e, SecondsDur(SECONDS_GPS_TAI_OFFSET))

\* as_gpst_nanoseconds without the test of the centuries
as_gpst_nanoseconds_unchecked(e) ==
    Ok(<<"U64", to_parts(as_gpst_duration(e))[2]>>)

\* Epoch::as_gpst_nanoseconds
as_gpst_nanoseconds(e) ==
    LET parts == to_parts(as_gpst_duration(e))
    IN  IF parts[1] # 0 THEN Err("Overflow") ELSE Ok(<<"U64", parts[2]>>)

\* Epoch::from_gpst_seconds
from_gpst_seconds(x) ==
    IF ~IsFinite(x) THEN Panic
    ELSE EpochVal(DurAdd(from_tai_seconds(x)[2], SecondsDur(SECONDS_GPS_TAI_OFFSET)))

\* Epoch::as_gpst_seconds
as_gpst_seconds(e) == in_seconds(as_gpst_duration(e))

\* Epoch::as_tt_duration
as_tt_duration(e) == DurAdd(e, UnitMillisecond(TT_OFFSET_MS))

\* Epoch::as_et_duration
as_et_duration(e) ==
    DurSub(DurAdd(e, UnitMicrosecond(ET_OFFSET_US)), SecondsDur(ET_EPOCH_S))

\* Epoch::as_et_seconds
as_et_seconds(e) == in_seconds(as_et_duration(e))

\* Epoch::as_jde_tt_duration
as_jde_tt_duration(e) ==
    DurAdd(as_tt_duration(e),
           normalize(0, J1900_OFFSET + MJD_OFFSET[1], MJD_OFFSET[2], 0))

\* Epoch::as_jde_et_duration
as_jde_et_duration(e) == DurAdd(as_jde_tt_duration(e), UnitMicrosecond(935))

\* Epoch::as_tt_since_j2k
as_tt_since_j2k(e) == DurSub(as_tt_duration(e), SecondsDur(ET_EPOCH_S))

\* Epoch::inner_g_rad, in millionths of a degree
inner_g_rad(e) == inner_of(as_tt_since_j2k(e))

\* The periodic term as the model computes it is within a sixteenth of a
\* nanosecond of the f64 value: 32 of the 512ths it is counted in
TdbTermSlack == 32

\* Epoch::as_tdb_duration.  (0.001_658 * inner.sin()) * Unit::Second is the
\* term in whole nanoseconds, the fraction dropped; delta is what the term
\* as the model computes it is off by, in 512ths of a nanosecond.
as_tdb_duration(e, delta) ==
    LET Term(t) == IF t < 0 THEN 0 - ((0 - t) \div 512) ELSE t \div 512
    IN  DurAdd(DurSub(as_tt_duration(e), SecondsDur(ET_EPOCH_S)),
               UnitNanosecond(Term(SineTimes(sin(inner_g_rad(e)), 848896000) + delta)))

\* the whole seconds of a duration, without their sign
WholeSecondsAbs(dur) ==
    LET w == Sec(dur[1] * DAYS_PER_CENTURY_I64 + dur[2], dur[3])
    IN  IF w[1] < 0 THEN SecSub(Sec(0, 0), w) ELSE w

\* Epoch::as_tdb_seconds.  The f64 x it returns is held as the duration
\* x * Unit::Second, which from_tdb_seconds makes of it: the f64 product
\* x * 1e9, whose total nanoseconds are a multiple of the f64 spacing there.
\* It is as_tt_seconds() - ET_EPOCH_S + term in f64: as_tt_seconds() is
\* rounded once, the difference and the sum once each, the product once.
\* The values of as_tdb_seconds are the durations on the grid no further
\* from the exact sum than these allow.  A second is 512 * 5^9 ns, which
\* gives the total nanoseconds modulo the spacing.
as_tdb_seconds_roundings(e) ==
    LET Grid(total, spacing, slack) ==
            { d \in (0 - slack)..slack : (total + d) % spacing = 0 }
        Total(w, n, spacing) ==
            IF spacing <= 512 THEN n
            ELSE 512 * SecondsTimes5P9Mod(w, spacing \div 512) + n
        Spaced(exact, m, spacing) ==
            Grid(Total(Sec(exact[1] * DAYS_PER_CENTURY_I64 + exact[2], exact[3]),
                       exact[4], spacing),
                 spacing,
                 HalfUlpNs(WholeSecondsAbs(as_tt_duration(e)))
                 + 2 * HalfUlpNs(m) + spacing \div 2 + 5)
        Around(exact, m) == Spaced(exact, m, F64NsSpacing(m))
        Exact(exact) == Around(exact, WholeSecondsAbs(exact))
    IN  Exact(as_tdb_duration(e, 0))

as_tdb_seconds(e, delta) == DurAdd(as_tdb_duration(e, 0), UnitNanosecond(delta))

\* UNIX_REF_EPOCH: 2_208_988_800 s of TAI after J1900
UNIX_REF_EPOCH == Dur(0, 25567, 0, 0)

\* Epoch::from_unix_seconds: utc_seconds is UNIX_REF_EPOCH.as_utc_duration()
\* + seconds * Unit::Second, handed to from_utc_seconds as the f64
\* utc_seconds.in_unit(Unit::Second)
from_unix_seconds(x) ==
    from_utc_seconds(F64(in_seconds(DurAdd(as_utc_duration(UNIX_REF_EPOCH),
                                           SecondsDurF64(x[3])))))

\* Epoch::as_unix_duration
as_unix_duration(e) ==
    DurSub(DurAdd(e, UnitSecond(-get_num_leap_seconds(e))),
           as_utc_duration(UNIX_REF_EPOCH))

\* Epoch::as_unix_seconds (as_unix(Unit::Second))
as_unix_seconds(e) == in_seconds(as_unix_duration(e))

---------------------------------------------------------------------------
(* Inputs *)

Window == 38

MaxMonth == 13

MaxDay == 32

\* TAI or UTC seconds: every whole second within Window of a table entry,
\* and a few instants far from any entry
NearLeap ==
    { SecAdd(LEAP_SECONDS[i], SecOfInt(k)) :
        i \in 1..Len(LEAP_SECONDS), k \in (0 - Window)..Window }

FarSeconds == { Sec(0, 0), Sec(0, 1), Sec(13881, 15168), Sec(25567, 0),
                Sec(29224, 19), Sec(36524, 43200), Sec(36525, 0),
                Sec(43000, 1), Sec(73050, 0), Sec(78944, 0), Sec(-1, 86399) }

\* Whole days (as numbers below 86400): the days of the table entries, MJD
\* or since 1900, and their neighbours
DayNumbers ==
    { Sec(0, LEAP_SECONDS[i][1] + k) : i \in 1..Len(LEAP_SECONDS), k \in {-1, 0, 1} }
    \cup { Sec(0, LEAP_SECONDS[i][1] + J1900_OFFSET) : i \in 1..Len(LEAP_SECONDS) }
    \cup { Sec(0, J1900_OFFSET) }

\* Seconds whose f64 product with 1e9 is rounded: an odd number of seconds
\* above 2^62 ns (6_311_520_037 s), and 3_155_716_800.001 s
RoundedSeconds == { Sec(73050, 37), <<36524, 43200, 1000000>> }

SecondsInputs == NearLeap \cup FarSeconds \cup DayNumbers \cup RoundedSeconds

\* Julian days (f64): midnight of the day of every table entry and of the
\* days next to it, 2_441_317.5 being 1972-01-01, and noon of 2000-01-01
JdeInputs ==
    { <<"JdeDays", "finite",
        <<LEAP_SECONDS[i][1] + k + J1900_OFFSET + MJD_OFFSET[1], MJD_OFFSET[2]>>>> :
        i \in 1..Len(LEAP_SECONDS), k \in {-1, 0, 1} }
    \cup { <<"JdeDays", "finite", <<2451545, 0>>>> }

NonFiniteInputs == { NonFinite("NaN"), NonFinite("+inf"), NonFinite("-inf") }

F64Inputs == { F64(x) : x \in SecondsInputs } \cup NonFiniteInputs

Years == { 1800, 1900, 1938, 1940, 1971, 1972, 2000, 2001, 2012, 2016, 2017, 2020,
           2100 }

Days == { 0, 1, 3, 6, 15 } \cup (28..MaxDay)

\* <<hour, minute, second, nanos>>
Times ==
    { <<0, 0, 0, 0>>, <<0, 0, 10, 0>>, <<4, 12, 48, 0>>, <<23, 59, 23, 0>>,
      <<23, 59, 24, 0>>, <<23, 59, 59, 0>>, <<23, 59, 60, 0>>, <<23, 59, 61, 0>>,
      <<24, 0, 0, 0>>, <<25, 0, 0, 0>>, <<0, 60, 0, 0>>, <<0, 0, 0, 500>>,
      <<23, 58, 60, 0>>, <<22, 59, 60, 0>>,
      <<0, 0, 0, 1000000000>>, <<0, 0, 0, 1000000001>>,
      <<23, 59, 59, 999999999>>, <<23, 59, 59, 999999700>> }

\* Dates the tests of the repository use
TestDates ==
    { <<2017, 1, 14, 0, 31, 55, 0>>, <<2019, 8, 1, 20, 10, 23, 0>>,
      <<1970, 1, 1, 0, 0, 0, 0>>, <<1980, 1, 6, 0, 0, 0, 0>>,
      <<1980, 1, 6, 0, 0, 19, 0>>, <<2022, 5, 20, 17, 57, 43, 0>>,
      <<2022, 5, 20, 17, 0, 0, 0>>, <<2022, 5, 20, 18, 0, 0, 0>>,
      <<1899, 12, 31, 23, 59, 59, 0>> }

GregInputs ==
    { <<"Greg", <<y, m, d, t[1], t[2], t[3], t[4]>>>> :
        y \in Years, m \in 0..MaxMonth, d \in Days, t \in Times }
    \cup { <<"Greg", g>> : g \in TestDates }

\* u64 nanoseconds k = <<d, s, n>>, up to u64::MAX; k + the GPS offset is
\* 2^64 for k = <<184279, 84854, 709551616>>
U64Inputs ==
    { <<"U64", <<d, s, n>>>> :
        d \in { 0, 1, 7305, 36524, 36525, 36526, 73050, 184000 },
        s \in { 0, 86399 },
        n \in { 0, 1, 999999999 } }
    \cup { <<"U64", U64_MAX>>,
           <<"U64", <<184279, 84854, 709551615>>>>,
           <<"U64", <<184279, 84854, 709551616>>>> }

TimeSystems == { "ET", "TAI", "TT", "TDB", "UTC" }

\* from_tdb_seconds_d and as_tdb_duration: what the periodic term as the
\* model computes it may be off by, in 512ths of a nanosecond.  Both are
\* monotone in the term, so the ends of the range give every outcome.
TdbTermDeltas == { 0 - TdbTermSlack, 0, TdbTermSlack }

\* TAI seconds of the epochs whose TDB is taken
TdbEpochSeconds ==
    FarSeconds \cup { LEAP_SECONDS[i] : i \in 1..Len(LEAP_SECONDS) }

\* years given to is_leap_year: some centuries around year 1000, and the
\* ends of i32
LeapYearSpan == 1401

YearInputs ==
    { <<"Year", y>> : y \in ((1000 - LeapYearSpan)..(1000 + LeapYearSpan))
                          \cup { 2147483647, -2147483647 - 1 } }

Inputs == F64Inputs \cup JdeInputs \cup GregInputs \cup U64Inputs \cup YearInputs

---------------------------------------------------------------------------
(* Actions *)

\* The first call, on the input drawn by Init (i: the input as recorded)
Fresh(o, i, r) ==
    /\ op = "init"
    /\ op' = o
    /\ inp' = i
    /\ out' = r
    /\ prev' = None

\* A call on the value the previous call returned
Chained(o, r) ==
    /\ op' = o
    /\ inp' = out
    /\ out' = r
    /\ prev' = <<op, inp, out>>

\* An f64 of seconds whose product with 1e9 SecondsDurF64 gives: a whole
\* number <<d, s>>, or <<d, s, n>> of at least 2^24 s either side of zero
InF64Range(x) ==
    \/ Len(x) = 2
    \/ SecGE(IF x[1] < 0 THEN SecSub(Sec(0, -1), x) ELSE x, Pow2Seconds[1])

\* An f64 input that stands for a number of days
IsDays(x) == IF IsFinite(x) THEN x[3][1] = 0 ELSE TRUE

FromTaiSeconds ==
    /\ Kind(inp) = "F64"
    /\ Fresh("from_tai_seconds", inp, from_tai_seconds(inp))

FromTaiDays ==
    /\ Kind(inp) = "F64" /\ IsDays(inp)
    /\ Fresh("from_tai_days", inp, from_tai_days(inp))

FromUtcSeconds ==
    /\ Kind(inp) = "F64"
    /\ Fresh("from_utc_seconds", inp, from_utc_seconds(inp))

FromUtcDays ==
    /\ Kind(inp) = "F64" /\ IsDays(inp)
    /\ Fresh("from_utc_days", inp, from_utc_days(inp))

FromMjdTai ==
    /\ Kind(inp) = "F64" /\ IsDays(inp)
    /\ Fresh("from_mjd_tai", inp, from_mjd_tai(inp))

FromMjdUtc ==
    /\ Kind(inp) = "F64" /\ IsDays(inp)
    /\ Fresh("from_mjd_utc", inp, from_mjd_utc(inp))

FromJdeUtc ==
    /\ Kind(inp) = "JdeDays"
    /\ Fresh("from_jde_utc", inp, from_jde_utc(inp))

FromTtSeconds ==
    /\ Kind(inp) = "F64"
    /\ Fresh("from_tt_seconds", inp, from_tt_seconds(inp))

FromEtSeconds ==
    /\ Kind(inp) = "F64"
    /\ Fresh("from_et_seconds", inp, from_et_seconds(inp))

FromTdbSeconds ==
    /\ Kind(inp) = "F64"
    /\ \E delta \in TdbTermDeltas :
          Fresh("from_tdb_seconds", inp, from_tdb_seconds(inp, delta))

FromGpstNanoseconds ==
    /\ Kind(inp) = "U64"
    /\ \E r \in from_gpst_nanoseconds_builds(inp[2]) :
          Fresh("from_gpst_nanoseconds", inp, r)

IsLeapYear ==
    /\ Kind(inp) = "Year"
    /\ Fresh("is_leap_year", inp, <<"Bool", is_leap_year(inp[2])>>)

IsGregorianValid ==
    /\ Kind(inp) = "Greg"
    /\ Fresh("is_gregorian_valid", inp, <<"Bool", is_gregorian_valid(inp[2])>>)

MaybeFromGregorian ==
    /\ Kind(inp) = "Greg"
    /\ \E ts \in TimeSystems :
         \E delta \in (IF ts = "TDB" THEN TdbTermDeltas ELSE {0}) :
            Fresh("maybe_from_gregorian", <<"Greg", inp[2], ts>>,
                  maybe_from_gregorian(inp[2], ts, delta))

MaybeFromGregorianTai ==
    /\ Kind(inp) = "Greg"
    /\ Fresh("maybe_from_gregorian_tai", inp, maybe_from_gregorian_tai(inp[2]))

MaybeFromGregorianUtc ==
    /\ Kind(inp) = "Greg"
    /\ Fresh("maybe_from_gregorian_utc", inp, maybe_from_gregorian_utc(inp[2]))

\* After second 59 of a minute, the same constructor on second 60 of it
MaybeFromGregorianUtcSecond60 ==
    /\ op = "maybe_from_gregorian_utc"
    /\ prev = None
    /\ Kind(out) = "Ok"
    /\ inp[2][6] = 59
    /\ LET g60 == [inp[2] EXCEPT ![6] = 60]
       IN  /\ op' = "maybe_from_gregorian_utc"
           /\ inp' = <<"Greg", g60>>
           /\ out' = maybe_from_gregorian_utc(g60)
           /\ prev' = <<op, inp, out>>

\* Epoch - Epoch: the epoch just built minus the one built before it
Sub ==
    /\ op = "maybe_from_gregorian_utc"
    /\ prev # None
    /\ Kind(out) = "Ok"
    /\ op' = "sub"
    /\ inp' = <<"Pair", out, prev[3]>>
    /\ out' = <<"Duration", EpochSub(EpochOf(out), EpochOf(prev[3]))>>
    /\ prev' = <<op, inp, out>>

\* from_utc_seconds on the value as_utc_seconds returned
FromUtcSecondsBack ==
    /\ op = "as_utc_seconds"
    /\ Chained("from_utc_seconds", from_utc_seconds(out))

\* from_gpst_nanoseconds on the value as_gpst_nanoseconds returned
FromGpstNanosecondsBack ==
    /\ op = "as_gpst_nanoseconds"
    /\ Kind(out) = "Ok"
    /\ Chained("from_gpst_nanoseconds", from_gpst_nanoseconds(out[2][2]))

\* The accessors, on the Epoch a constructor returned.  Those that go
\* through f64 seconds are called on whole seconds.
AsUtcSeconds ==
    /\ prev = None
    /\ HasEpoch(out)
    /\ EpochOf(out)[4] = 0
    /\ Chained("as_utc_seconds", F64(as_utc_seconds(EpochOf(out))))

AsGregorianUtc ==
    /\ prev = None
    /\ HasEpoch(out)
    /\ EpochOf(out)[4] = 0
    /\ Chained("as_gregorian_utc", as_gregorian_utc(EpochOf(out)))

AsGregorianTai ==
    /\ prev = None
    /\ HasEpoch(out)
    /\ EpochOf(out)[4] = 0
    /\ Chained("as_gregorian_tai", as_gregorian_tai(EpochOf(out)))

\* The accessors of seconds that are fed back to their constructor are
\* called on the epochs at a whole number of seconds that were built from
\* TAI or UTC seconds.
BuiltFromSeconds ==
    /\ prev = None
    /\ op \in { "from_tai_seconds", "from_utc_seconds" }
    /\ Kind(out) = "Epoch"
    /\ EpochOf(out)[4] = 0

AsTaiSeconds ==
    /\ BuiltFromSeconds
    /\ Chained("as_tai_seconds", F64(as_tai_seconds(EpochOf(out))))

\* from_tai_seconds on the value as_tai_seconds returned
FromTaiSecondsBack ==
    /\ op = "as_tai_seconds"
    /\ Chained("from_tai_seconds", from_tai_seconds(out))

AsGpstSeconds ==
    /\ BuiltFromSeconds
    /\ Chained("as_gpst_seconds", F64(as_gpst_seconds(EpochOf(out))))

\* from_gpst_seconds on the value as_gpst_seconds returned
FromGpstSecondsBack ==
    /\ op = "as_gpst_seconds"
    /\ Chained("from_gpst_seconds", from_gpst_seconds(out))

AsTtDuration ==
    /\ prev = None
    /\ op \in { "from_tt_seconds", "from_tai_seconds", "from_utc_seconds" }
    /\ Kind(out) = "Epoch"
    /\ Chained("as_tt_duration", <<"Duration", as_tt_duration(EpochOf(out))>>)

\* e.as_et_duration() on an epoch built from seconds
AsEtDuration ==
    /\ prev = None
    /\ op \in { "from_et_seconds", "from_tai_seconds" }
    /\ Kind(out) = "Epoch"
    /\ Chained("as_et_duration", <<"Duration", as_et_duration(EpochOf(out))>>)

\* Epoch::from_et_seconds(e.as_et_seconds()), for e.as_et_seconds() a whole
\* number or at least 2^24 s either side of zero
FromEtSecondsBack ==
    /\ op = "as_et_duration"
    /\ InF64Range(as_et_seconds(EpochOf(inp)))
    /\ Chained("from_et_seconds", from_et_seconds(F64(as_et_seconds(EpochOf(inp)))))

\* e.as_jde_et_duration() on an epoch built from seconds
AsJdeEtDuration ==
    /\ prev = None
    /\ op \in { "from_et_seconds", "from_tai_seconds" }
    /\ Kind(out) = "Epoch"
    /\ Chained("as_jde_et_duration",
               <<"Duration", as_jde_et_duration(EpochOf(out))>>)

\* e.as_tdb_duration() on an epoch built from TAI seconds
AsTdbDuration ==
    /\ prev = None
    /\ op = "from_tai_seconds"
    /\ Kind(out) = "Epoch"
    /\ inp[3] \in TdbEpochSeconds
    /\ \E delta \in TdbTermDeltas :
          Chained("as_tdb_duration",
                  <<"Duration", as_tdb_duration(EpochOf(out), delta)>>)

\* e.as_tdb_seconds() on an epoch built from TAI seconds
AsTdbSeconds ==
    /\ prev = None
    /\ op = "from_tai_seconds"
    /\ Kind(out) = "Epoch"
    /\ inp[3] \in TdbEpochSeconds
    /\ \E delta \in as_tdb_seconds_roundings(EpochOf(out)) :
          Chained("as_tdb_seconds",
                  <<"Duration", as_tdb_seconds(EpochOf(out), delta)>>)

\* Epoch::from_tdb_seconds(e.as_tdb_seconds())
FromTdbSecondsBack ==
    /\ op = "as_tdb_seconds"
    /\ \E delta \in TdbTermDeltas :
          Chained("from_tdb_seconds", EpochVal(from_tdb_seconds_d(out[2], delta)))

\* durations added to an epoch: an hour as 3600 s, a nanosecond, a second
\* back, a century
AddedDurations ==
    { UnitSecond(3600), UnitNanosecond(1), DurSub(ZERO, UnitSecond(1)),
      Dur(1, 0, 0, 0) }

\* e + d on an epoch built from TAI seconds
AddDuration ==
    /\ prev = None
    /\ op = "from_tai_seconds"
    /\ Kind(out) = "Epoch"
    /\ \E d \in AddedDurations :
          /\ op' = "add"
          /\ inp' = <<"Pair", out, <<"Duration", d>>>>
          /\ out' = EpochVal(EpochAdd(EpochOf(out), d))
          /\ prev' = <<op, inp, out>>

\* (e + d) - e
SubEpochBack ==
    /\ op = "add"
    /\ op' = "sub_epoch"
    /\ inp' = <<"Pair", out, inp[2]>>
    /\ out' = <<"Duration", EpochSub(EpochOf(out), EpochOf(inp[2]))>>
    /\ prev' = <<op, inp, out>>

\* (e + d) - d
SubDurationBack ==
    /\ op = "add"
    /\ op' = "sub_duration"
    /\ inp' = <<"Pair", out, inp[3]>>
    /\ out' = EpochVal(EpochSubDuration(EpochOf(out), inp[3][2]))
    /\ prev' = <<op, inp, out>>

\* e - e on an epoch built from TAI seconds
SubSelf ==
    /\ prev = None
    /\ op = "from_tai_seconds"
    /\ Kind(out) = "Epoch"
    /\ op' = "sub_self"
    /\ inp' = <<"Pair", out, out>>
    /\ out' = <<"Duration", EpochSub(EpochOf(out), EpochOf(out))>>
    /\ prev' = <<op, inp, out>>

AsUnixSeconds ==
    /\ BuiltFromSeconds
    /\ Chained("as_unix_seconds", F64(as_unix_seconds(EpochOf(out))))

\* from_unix_seconds on the value as_unix_seconds returned
FromUnixSecondsBack ==
    /\ op = "as_unix_seconds"
    /\ Chained("from_unix_seconds", from_unix_seconds(out))

AsGpstNanoseconds ==
    /\ prev = None
    /\ HasEpoch(out)
    /\ Chained("as_gpst_nanoseconds", as_gpst_nanoseconds(EpochOf(out)))

GetNumLeapSeconds ==
    /\ prev = None
    /\ HasEpoch(out)
    /\ Chained("get_num_leap_seconds", IntVal(get_num_leap_seconds(EpochOf(out))))

\* get_num_leap_seconds on the epoch one second (Epoch + Unit::Second) after
\* the one it was just called on
GetNumLeapSecondsNextSecond ==
    /\ op = "get_num_leap_seconds"
    /\ prev[1] = "from_tai_seconds"
    /\ LET next == EpochVal(DurAdd(EpochOf(inp), UnitSecond(1)))
       IN  /\ op' = "get_num_leap_seconds"
           /\ inp' = next
           /\ out' = IntVal(get_num_leap_seconds(EpochOf(next)))
           /\ prev' = <<op, inp, out>>

Init ==
    /\ op = "init"
    /\ inp \in Inputs
    /\ out = None
    /\ prev = None

Next ==
    \/ FromTaiSeconds
    \/ FromTaiDays
    \/ FromUtcSeconds
    \/ FromUtcDays
    \/ FromMjdTai
    \/ FromMjdUtc
    \/ FromJdeUtc
    \/ FromTtSeconds
    \/ FromEtSeconds
    \/ FromTdbSeconds
    \/ FromGpstNanoseconds
    \/ IsGregorianValid
    \/ MaybeFromGregorian
    \/ MaybeFromGregorianTai
    \/ MaybeFromGregorianUtc
    \/ MaybeFromGregorianUtcSecond60
    \/ Sub
    \/ FromUtcSecondsBack
    \/ FromGpstNanosecondsBack
    \/ AsUtcSeconds
    \/ AsGregorianUtc
    \/ AsGregorianTai
    \/ AsTaiSeconds
    \/ FromTaiSecondsBack
    \/ AsGpstSeconds
    \/ FromGpstSecondsBack
    \/ AsTtDuration
    \/ AsUnixSeconds
    \/ FromUnixSecondsBack
    \/ AsGpstNanoseconds
    \/ GetNumLeapSeconds
    \/ GetNumLeapSecondsNextSecond
    \/ AsEtDuration
    \/ FromEtSecondsBack
    \/ AsJdeEtDuration
    \/ AsTdbDuration
    \/ AsTdbSeconds
    \/ FromTdbSecondsBack
    \/ AddDuration
    \/ SubEpochBack
    \/ SubDurationBack
    \/ SubSelf
    \/ IsLeapYear

Spec == Init /\ [][Next]_vars

---------------------------------------------------------------------------
(* Claims *)

\* The epoch a call was made on, and the date a call was made with
CallEpoch == EpochOf(inp)

\* C1: get_num_leap_seconds of an epoch at a whole number t of TAI seconds
\* is 0 when t is before the first table entry and 10 + i when
\* LEAP_SECONDS[i] <= t < LEAP_SECONDS[i+1] (0-based i, the last interval
\* open-ended); it is 0 at 1971-12-31T23:59:59 and 10 at 1972-01-01T00:00:00.
C1_LeapCountTable ==
    (op = "get_num_leap_seconds" /\ CallEpoch[4] = 0) =>
        LET t == as_tai_seconds(CallEpoch)
            n == out[2]
        IN  /\ ~SecGE(t, LEAP_SECONDS[1]) => n = 0
            /\ \A i \in 1..Len(LEAP_SECONDS) :
                  ( /\ SecGE(t, LEAP_SECONDS[i])
                    /\ IF i = Len(LEAP_SECONDS) THEN TRUE
                       ELSE ~SecGE(t, LEAP_SECONDS[i + 1]) )
                  => n = 9 + i
            /\ t = Sec(26296, 86399) => n = 0
            /\ t = Sec(26297, 0) => n = 10

C1_Witness ==
    /\ op = "get_num_leap_seconds"
    /\ as_tai_seconds(CallEpoch) = Sec(26297, 0)
    /\ out = IntVal(10)

\* C2 (as claimed): from_utc_seconds(e.as_utc_seconds()) == e for every
\* epoch e at a whole number of TAI seconds.
C2_UtcRoundTrip ==
    (op = "from_utc_seconds" /\ prev # None) =>
        EpochOf(out) = EpochOf(prev[2])

UtcConstructors ==
    { "from_utc_seconds", "from_utc_days", "from_mjd_utc", "from_jde_utc",
      "maybe_from_gregorian_utc" }

\* The UTC seconds since 1900 a UTC constructor was called with
UtcSecondsOf(o, x) ==
    CASE o = "from_utc_seconds" -> x[3]
      [] o = "from_utc_days" -> Sec(SmallInt(x), 0)
      [] o = "from_mjd_utc" -> Sec(SmallInt(x) - J1900_OFFSET, 0)
      [] o = "from_jde_utc" ->
            SecSub(x[3], SecAdd(Sec(J1900_OFFSET, 0), MJD_OFFSET))
      [] o = "maybe_from_gregorian_utc" -> in_seconds(seconds_wrt_1900(x[2]))

\* get_num_leap_seconds was called on the epoch a UTC constructor built
\* from a whole number of seconds
C3_Case ==
    /\ op = "get_num_leap_seconds"
    /\ prev[1] \in UtcConstructors
    /\ CallEpoch[4] = 0

\* C3: for every whole number u of UTC seconds, the epoch t a UTC
\* constructor builds (from_utc_seconds, from_utc_days, from_mjd_utc,
\* from_jde_utc, maybe_from_gregorian_utc) satisfies
\* t.as_tai_seconds() - u == t.get_num_leap_seconds().
C3_ForwardSelfConsistent ==
    C3_Case =>
        SecSub(as_tai_seconds(CallEpoch), UtcSecondsOf(prev[1], prev[2]))
            = SecOfInt(out[2])

\* The difference of the epochs built from second 60 and from second 59 of
\* one minute
C4_Case == op = "sub" /\ prev[2][2][6] = 60

\* C4 (as claimed): from_gregorian_utc with second = 60 is exactly 1 second
\* after from_gregorian_utc with second = 59 of the same minute.
C4_Second60OneSecondLater == C4_Case => out[2] = UnitSecond(1)

\* C4 (amended): from_gregorian_utc with second = 60 is the same epoch as
\* with second = 59 of the same minute: their difference is 0.
C4_Second60SameEpoch == C4_Case => out[2] = ZERO

C4_Witness ==
    /\ C4_Case
    /\ prev[2] = <<"Greg", <<1972, 6, 30, 23, 59, 60, 0>>>>
    /\ out[2] = ZERO

\* as_gregorian_utc of from_tai_seconds(2_272_060_800.0)
C5_Case ==
    /\ op = "as_gregorian_utc"
    /\ prev[1] = "from_tai_seconds"
    /\ prev[2] = F64(LEAP_SECONDS[1])

\* C5 (as claimed): from_tai_seconds(2_272_060_800.0) decomposes through
\* as_gregorian_utc to 1972-01-01T00:00:00.
C5_FirstEntryIs1972 ==
    C5_Case => out = <<"Greg", <<1972, 1, 1, 0, 0, 0, 0>>>>

\* C5 (amended): it decomposes to 1971-12-31T23:59:50, ten seconds earlier.
C5_FirstEntryIs1971 ==
    C5_Case => out = <<"Greg", <<1971, 12, 31, 23, 59, 50, 0>>>>

C5_Witness ==
    /\ C5_Case
    /\ out = <<"Greg", <<1971, 12, 31, 23, 59, 50, 0>>>>

\* The TAI duration of the GPS epoch, 2_524_953_619 s after J1900
GpsEpoch == normalize(0, 29224, 19, 0)

\* as_gpst_nanoseconds of from_gpst_nanoseconds(k)
C6_Case == op = "as_gpst_nanoseconds" /\ prev[1] = "from_gpst_nanoseconds"

\* C6 (as claimed): from_gpst_nanoseconds(k).as_gpst_nanoseconds() is Ok(k)
\* for every u64 k.
C6_GpstNanosRoundTrip == C6_Case => out = Ok(prev[2])

\* C6 (amended): from_gpst_nanoseconds(k) is the epoch k nanoseconds after
\* the GPS epoch while k + 2_524_953_619e9 is below 2^64; from there on it
\* panics or is the epoch of the sum less 2^64.  Of the epoch it returns
\* as_gpst_nanoseconds() is Ok(k) for every k < NS_PER_CENTURY and
\* Err(Overflow) for every other k; and for every epoch e with
\* as_gpst_nanoseconds() == Ok(n), from_gpst_nanoseconds(n) == e.
C6_GpstNanosRoundTripBelowCentury ==
    /\ (op = "from_gpst_nanoseconds" /\ prev = None) =>
          LET k == inp[2]
              past == \/ k[1] > 184279
                      \/ k[1] = 184279 /\ k[2] > 84854
                      \/ k[1] = 184279 /\ k[2] = 84854 /\ k[3] >= 709551616
          IN  IF past
              THEN out \in { Panic,
                             EpochVal(normalize(0, k[1] - 184279, k[2] - 84854,
                                                k[3] - 709551616)) }
              ELSE out = EpochVal(DurAdd(GpsEpoch, Dur(0, k[1], k[2], k[3])))
    /\ C6_Case =>
          IF prev[2][2][1] < DAYS_PER_CENTURY_I64
          THEN out = Ok(prev[2]) ELSE out = Err("Overflow")
    /\ (op = "from_gpst_nanoseconds" /\ prev # None) =>
          EpochOf(out) = EpochOf(prev[2])

C6_Witness ==
    /\ C6_Case
    /\ prev[2] = <<"U64", <<DAYS_PER_CENTURY_I64, 0, 0>>>>
    /\ out = Err("Overflow")

\* The days of a month of the Gregorian calendar
DaysIn(month, year) ==
    IF month = 2 /\ is_leap_year(year) THEN 29 ELSE USUAL_DAYS_PER_MONTH[month]

\* C7 (as claimed): is_gregorian_valid accepts a date only if the month is
\* in 1..=12 and the day in 1..=days_in(month, year).
C7_ValidOnlyRealDates ==
    (op = "is_gregorian_valid" /\ out[2]) =>
        /\ inp[2][2] \in 1..12
        /\ inp[2][3] \in 1..DaysIn(inp[2][2], inp[2][1])

\* C8 (as claimed): is_gregorian_valid is true only if nanos < 10^9, and
\* maybe_from_gregorian_tai / _utc return Err(Carry) for nanos >= 10^9.
C8_NanosBelowOneSecond ==
    /\ (op = "is_gregorian_valid" /\ out[2]) => inp[2][7] < NANOS_PER_SECOND
    /\ ( /\ op \in { "maybe_from_gregorian_tai", "maybe_from_gregorian_utc" }
         /\ inp[2][7] >= NANOS_PER_SECOND ) => out = Err("Carry")

\* C9 (as claimed): maybe_from_gregorian returns Ok or Err for every input
\* and every TimeSystem, and never aborts.
C9_AlwaysAResult ==
    op = "maybe_from_gregorian" => Kind(out) \in { "Ok", "Err" }

SecondsOrDaysConstructors ==
    { "from_tai_seconds", "from_tai_days", "from_utc_seconds", "from_mjd_tai",
      "from_tt_seconds", "from_et_seconds", "from_tdb_seconds" }

\* C10 (as claimed): a non-finite f64 given to a constructor that takes
\* seconds or days is reported as a NonFinite error; nothing aborts.
C10_NonFiniteReported ==
    ( /\ op \in SecondsOrDaysConstructors
      /\ prev = None
      /\ ~IsFinite(inp) ) => out = Err("NonFinite")

\* A call of one of the two fallible Gregorian constructors of a scale
C11_Case == op \in { "maybe_from_gregorian_tai", "maybe_from_gregorian_utc" }

\* C11: maybe_from_gregorian_tai and maybe_from_gregorian_utc return
\* Err(Carry) exactly when is_gregorian_valid rejects the fields (second 61,
\* month 0, day 0, minute 60 among them) and Ok(epoch) for every input it
\* accepts; they return no other error.
C11_CarryExactlyWhenInvalid ==
    C11_Case =>
        LET g == inp[2]
        IN  /\ IF is_gregorian_valid(g)
               THEN Kind(out) = "Ok" /\ Kind(out[2]) = "Epoch"
               ELSE out = Err("Carry")
            /\ (g[6] >= 61 \/ g[2] = 0 \/ g[3] = 0 \/ g[5] >= 60)
                  => out = Err("Carry")

C11_Witness ==
    /\ C11_Case
    /\ inp[2] = <<2016, 12, 31, 23, 59, 61, 0>>
    /\ out = Err("Carry")

\* The last minute of a June or of a December that ends in a leap second
LeapSecondMinute(g) ==
    \/ g[2] = 6 /\ g[3] = 30 /\ g[4] = 23 /\ g[5] = 59 /\ g[1] \in JULY_YEARS
    \/ g[2] = 12 /\ g[3] = 31 /\ g[4] = 23 /\ g[5] = 59
          /\ (g[1] + 1) \in JANUARY_YEARS

\* C12: is_gregorian_valid accepts second == 60 only for June 30 23:59 of a
\* year in JULY_YEARS or December 31 23:59 of a year y with y + 1 in
\* JANUARY_YEARS; on every other date and minute second == 60 is rejected,
\* and second >= 61 is rejected on every date.
C12_Second60OnlyInLeapMinute ==
    op = "is_gregorian_valid" =>
        LET g == inp[2]
        IN  /\ (g[6] = 60 /\ ~LeapSecondMinute(g)) => out = <<"Bool", FALSE>>
            /\ g[6] >= 61 => out = <<"Bool", FALSE>>

C12_Witness ==
    /\ op = "is_gregorian_valid"
    /\ inp[2] = <<2016, 12, 31, 23, 58, 60, 0>>
    /\ out = <<"Bool", FALSE>>

\* The days from 0000-03-01 to a date of the proleptic Gregorian calendar,
\* counted by 400-year eras of 146097 days (for years from 1 on)
DaysFromCivil(year, month, day) ==
    LET y == IF month <= 2 THEN year - 1 ELSE year
        era == y \div 400
        yoe == y - era * 400
        mp == IF month > 2 THEN month - 3 ELSE month + 9
        doy == (153 * mp + 2) \div 5 + day - 1
    IN  era * 146097 + yoe * 365 + yoe \div 4 - yoe \div 100 + doy

\* A date of the Gregorian calendar with a time of day below 24:00:00
RealDateTime(g) ==
    /\ g[2] \in 1..12
    /\ g[3] \in 1..DaysIn(g[2], g[1])
    /\ g[4] < 24 /\ g[5] < 60 /\ g[6] < 60 /\ g[7] < NANOS_PER_SECOND

\* maybe_from_gregorian_tai was called with a real date of 1900..=2100
C13_Case ==
    /\ op = "maybe_from_gregorian_tai"
    /\ inp[2][1] \in 1900..2100
    /\ RealDateTime(inp[2])

\* C13: for every real Gregorian date of the years 1900..=2100 with hour <
\* 24, minute < 60, second < 60 and nanos < 10^9, maybe_from_gregorian_tai
\* returns Ok(e) with e exactly D days + hour h + minute min + second s +
\* nanos ns after J1900, D being the days from 1900-01-01 to the date;
\* 1938-01-03T04:12:48 is 1_199_333_568 s, 1940-02-29T04:12:48 is
\* 1_267_330_368 s and 1972-01-01T00:00:00 is 2_272_060_800 s.
C13_MatchesCalendar ==
    C13_Case =>
        LET g == inp[2]
            D == DaysFromCivil(g[1], g[2], g[3]) - DaysFromCivil(1900, 1, 1)
        IN  /\ out = Ok(EpochVal(normalize(0, D, g[4] * 3600 + g[5] * 60 + g[6],
                                           g[7])))
            /\ g = <<1938, 1, 3, 4, 12, 48, 0>>
                  => in_seconds(EpochOf(out)) = SecOfInt(1199333568)
            /\ g = <<1940, 2, 29, 4, 12, 48, 0>>
                  => in_seconds(EpochOf(out)) = SecOfInt(1267330368)
            /\ g = <<1972, 1, 1, 0, 0, 0, 0>>
                  => in_seconds(EpochOf(out)) = LEAP_SECONDS[1]

C13_Witness ==
    /\ C13_Case
    /\ inp[2] = <<1940, 2, 29, 4, 12, 48, 0>>
    /\ out = Ok(EpochVal(Dur(0, 14668, 15168, 0)))

\* C14 (as claimed): for every real Gregorian date of the years 1900..=2100
\* with second <= 59 and nanos = 0, from_gregorian_tai(date).as_gregorian_tai()
\* returns the date, the last days of November and December included.
C14_GregorianTaiRoundTrip ==
    ( /\ op = "as_gregorian_tai"
      /\ prev[1] = "maybe_from_gregorian_tai"
      /\ prev[2][2][1] \in 1900..2100
      /\ RealDateTime(prev[2][2])
      /\ prev[2][2][7] = 0 ) => out = <<"Greg", prev[2][2]>>

\* The leap-second count in force at a calendar date: 10 for the first table
\* entry on or before the date and one for each later one
LeapCountAtDate(g) ==
    LET D == DaysFromCivil(g[1], g[2], g[3]) - DaysFromCivil(1900, 1, 1)
        n == Cardinality({ i \in 1..Len(LEAP_SECONDS) : LEAP_SECONDS[i][1] <= D })
    IN  IF n = 0 THEN 0 ELSE 9 + n

\* from_gregorian_utc(date) - from_gregorian_tai(date), when both are Ok
UtcMinusTai(g) ==
    DurSub(EpochOf(maybe_from_gregorian_utc(g)), EpochOf(maybe_from_gregorian_tai(g)))

\* C15 (as claimed): for every valid date from_gregorian_utc(date) -
\* from_gregorian_tai(date) is the leap-second count in force: 0 s before
\* 1972-01-01, 10 s at 1972-01-01T00:00:00, 32 s at 2000-01-01T00:00:00, 37 s
\* from 2017-01-01 on; an epoch built from a UTC date from 2017-01-01 on has
\* as_tai_seconds() - as_utc_seconds() == 37; and
\* from_gregorian_utc(2017,1,14,0,31,55,0) is (1 century,
\* 537_582_752_000_000_000 ns).
C15_TaiUtcOffset ==
    /\ (op = "maybe_from_gregorian_utc" /\ Kind(out) = "Ok") =>
          LET g == inp[2]
              diff == UtcMinusTai(g)
          IN  /\ RealDateTime(g) => diff = UnitSecond(LeapCountAtDate(g))
              /\ (g[1] < 1972 /\ g[4] < 24) => diff = ZERO
              /\ g = <<1972, 1, 1, 0, 0, 0, 0>> => diff = UnitSecond(10)
              /\ g = <<2000, 1, 1, 0, 0, 0, 0>> => diff = UnitSecond(32)
              /\ g[1] >= 2017 => diff = UnitSecond(37)
              /\ g = <<2017, 1, 14, 0, 31, 55, 0>>
                    => EpochOf(out) = Dur(1, 6222, 1952, 0)
    /\ ( /\ op = "as_utc_seconds"
         /\ prev[1] = "maybe_from_gregorian_utc"
         /\ prev[2][2][1] >= 2017 ) =>
          SecSub(as_tai_seconds(EpochOf(inp)), out[3]) = SecOfInt(37)

\* C16 (as claimed): the UNIX reference epoch, 2_208_988_800 s of TAI after
\* J1900, equals from_gregorian_utc_at_midnight(1970, 1, 1) and has
\* as_unix_seconds() == 0; and from_unix_seconds(e.as_unix_seconds()) == e for
\* every epoch e at a whole number of TAI seconds.
C16_UnixRoundTrip ==
    /\ (op = "maybe_from_gregorian_utc" /\ inp[2] = <<1970, 1, 1, 0, 0, 0, 0>>)
          => /\ out = Ok(EpochVal(UNIX_REF_EPOCH))
             /\ as_tai_seconds(UNIX_REF_EPOCH) = Sec(25567, 0)
    /\ (op = "as_unix_seconds" /\ EpochOf(inp) = UNIX_REF_EPOCH)
          => out = F64(Sec(0, 0))
    /\ (op = "from_unix_seconds" /\ prev[1] = "as_unix_seconds")
          => EpochOf(out) = EpochOf(prev[2])

\* C17: for every epoch e at a whole number of TAI seconds,
\* from_tai_seconds(e.as_tai_seconds()) == e and
\* from_gpst_seconds(e.as_gpst_seconds()) == e, and the GPST time of e is its
\* TAI time minus 2_524_953_619 s.
C17_TaiGpstRoundTrip ==
    /\ (op = "from_tai_seconds" /\ prev[1] = "as_tai_seconds")
          => out = prev[2]
    /\ (op = "from_gpst_seconds" /\ prev[1] = "as_gpst_seconds")
          => out = prev[2]
    /\ op = "as_gpst_seconds"
          => /\ out[3] = SecSub(as_tai_seconds(EpochOf(inp)), Sec(29224, 19))
             /\ as_gpst_duration(EpochOf(inp))
                   = DurSub(EpochOf(inp), normalize(0, 29224, 19, 0))

\* The accessors of the model
Accessors ==
    { "as_tai_seconds", "as_utc_seconds", "as_gpst_seconds", "as_unix_seconds",
      "as_gregorian_utc", "as_gregorian_tai", "get_num_leap_seconds",
      "as_gpst_nanoseconds" }

\* C18: as_gpst_nanoseconds returns Err(Overflow) exactly when the centuries
\* of the GPST duration (TAI duration minus 2_524_953_619 s) are not zero,
\* which is so for every epoch before the GPS epoch and for every epoch one
\* century or more after it, and otherwise Ok(its nanoseconds); no other
\* accessor fails.
C18_OnlyGpstNanosecondsFails ==
    /\ op = "as_gpst_nanoseconds" =>
          LET e == EpochOf(inp)
              gpst == DurSub(e, GpsEpoch)
          IN  /\ IF gpst[1] # 0 THEN out = Err("Overflow")
                 ELSE out = Ok(<<"U64", <<gpst[2], gpst[3], gpst[4]>>>>)
              /\ DurSub(e, GpsEpoch)[1] < 0 => out = Err("Overflow")
              /\ DurSub(e, DurAdd(GpsEpoch, Dur(1, 0, 0, 0)))[1] >= 0
                    => out = Err("Overflow")
    /\ (op \in Accessors /\ op # "as_gpst_nanoseconds") =>
          Kind(out) \in { "F64", "Greg", "Int" }

C18_Witness ==
    /\ op = "as_gpst_nanoseconds"
    /\ EpochOf(inp) = Dur(0, 26297, 0, 0)
    /\ out = Err("Overflow")

\* get_num_leap_seconds at a whole number of TAI seconds
CountAt(x) == get_num_leap_seconds(SecondsDur(x))

\* C19: get_num_leap_seconds is monotone non-decreasing in TAI; its range is
\* {0} and 10..37, every value of which is taken; from one second to the
\* next it stays, goes from 0 to 10 or grows by one; LEAP_SECONDS is strictly
\* increasing.
C19_LeapCountMonotone ==
    op = "get_num_leap_seconds" =>
        LET t == as_tai_seconds(CallEpoch)
            n == out[2]
        IN  /\ n \in {0} \cup (10..37)
            /\ \A i \in 1..Len(LEAP_SECONDS) :
                  /\ SecGE(LEAP_SECONDS[i], t) => CountAt(LEAP_SECONDS[i]) >= n
                  /\ SecGE(t, LEAP_SECONDS[i]) => n >= CountAt(LEAP_SECONDS[i])
                  /\ CountAt(LEAP_SECONDS[i]) = 9 + i
                  /\ i > 1 => SecGT(LEAP_SECONDS[i], LEAP_SECONDS[i - 1])
            /\ CountAt(Sec(0, 0)) = 0
            /\ prev[1] = "get_num_leap_seconds" =>
                  \/ n = prev[3][2]
                  \/ n = prev[3][2] + 1
                  \/ n = 10 /\ prev[3][2] = 0

C19_Witness ==
    /\ op = "get_num_leap_seconds"
    /\ prev[1] = "get_num_leap_seconds"
    /\ prev[3] = IntVal(36)
    /\ out = IntVal(37)

\* The duration of x seconds, x = <<d, s>> or <<d, s, n>>, with no rounding
SecondsExact(x) == normalize(0, x[1], x[2], IF Len(x) = 3 THEN x[3] ELSE 0)

\* 32.184 s
TtOffset == normalize(0, 0, 32, 184000000)

\* C20: for every epoch e, e.as_tt_duration() - e.as_tai_duration() is
\* 32_184 ms; from_tt_seconds(x).as_tt_duration() is x for every whole
\* number of milliseconds x; and for every valid date
\* maybe_from_gregorian(date, TT) is maybe_from_gregorian(date, TAI) minus
\* 32_184 ms.
C20_TtIsTaiPlusOffset ==
    /\ op = "as_tt_duration" =>
          /\ DurSub(out[2], EpochOf(inp)) = TtOffset
          /\ prev[1] = "from_tt_seconds" => out[2] = SecondsExact(prev[2][3])
    /\ ( /\ op = "maybe_from_gregorian"
         /\ inp[3] = "TT"
         /\ is_gregorian_valid(inp[2]) ) =>
          out = Ok(EpochVal(DurSub(EpochOf(maybe_from_gregorian(inp[2], "TAI", 0)),
                                   TtOffset)))

\* 3_155_716_800 s + 2_415_020.5 days
JdeMinusEt == DurAdd(SecondsDur(ET_EPOCH_S), normalize(0, 2415020, 43200, 0))

\* C21: as_et_duration is the TAI duration plus 32_184_935 us minus
\* 3_155_716_800 s and from_et_seconds is its exact inverse, for every epoch
\* e and for every x of from_et_seconds(x); the epoch
\* from_et_seconds(0) has the Julian ET date 2_451_545.0 days, and
\* as_jde_et_duration(e) - as_et_duration(e) is the same for every e.
C21_EtInversePair ==
    /\ op = "as_et_duration" =>
          /\ out[2] = DurSub(DurAdd(EpochOf(inp), Dur(0, 0, 32, 184935000)),
                             Dur(0, 36524, 43200, 0))
          /\ prev[1] = "from_et_seconds" => out[2] = SecondsExact(prev[2][3])
    /\ (op = "from_et_seconds" /\ prev[1] = "as_et_duration") =>
          out = prev[2]
    /\ op = "as_jde_et_duration" =>
          /\ DurSub(out[2], as_et_duration(EpochOf(inp))) = JdeMinusEt
          /\ (prev[1] = "from_et_seconds" /\ prev[2] = F64(Sec(0, 0))) =>
                out[2] = UnitDay(2451545)

\* the nanoseconds of a duration shorter than a day, either sign
SmallNanos(d) ==
    IF d[1] = 0 /\ d[2] = 0 THEN d[3] * NANOS_PER_SECOND + d[4]
    ELSE IF d[1] = -1 /\ d[2] = DAYS_PER_CENTURY_I64 - 1
              /\ d[3] = SECONDS_PER_DAY_I64 - 1
         THEN d[4] - NANOS_PER_SECOND
    ELSE NANOS_PER_SECOND

\* C22: for an epoch e between 1900 and 2100,
\* from_tdb_seconds(e.as_tdb_seconds()) differs from e by less than 10
\* microseconds.
C22_TdbRoundTrip ==
    (op = "from_tdb_seconds" /\ prev[1] = "as_tdb_seconds") =>
        LET diff == SmallNanos(DurSub(EpochOf(out), EpochOf(prev[2])))
        IN  diff > -10000 /\ diff < 10000

\* C23: from_tai_seconds(SECONDS_GPS_TAI_OFFSET), from_gpst_seconds(0) and
\* from_gpst_nanoseconds(0) are one epoch, the instant of
\* from_gregorian_utc_at_midnight(1980, 1, 6) and of
\* from_gregorian_tai_hms(1980, 1, 6, 0, 0, 19); the offset is
\* 80 * 31_557_600 + 4 * 86_400 + 19 = 2_524_953_619 s.
C23_GpsEpochIdentity ==
    /\ SECONDS_GPS_TAI_OFFSET = SecNorm(80 * 365 + 4, 80 * 21600 + 19)
    /\ SECONDS_GPS_TAI_OFFSET[1] * 864 = 25249536
    /\ GpsEpoch = SecondsDur(SECONDS_GPS_TAI_OFFSET)
    /\ (op = "from_tai_seconds" /\ inp = F64(SECONDS_GPS_TAI_OFFSET)) =>
          out = EpochVal(GpsEpoch)
    /\ (op = "from_gpst_seconds" /\ inp = F64(Sec(0, 0))) =>
          out = EpochVal(GpsEpoch)
    /\ (op = "from_gpst_nanoseconds" /\ inp = <<"U64", <<0, 0, 0>>>>) =>
          out = EpochVal(GpsEpoch)
    /\ (op = "maybe_from_gregorian_utc" /\ inp[2] = <<1980, 1, 6, 0, 0, 0, 0>>) =>
          out = Ok(EpochVal(GpsEpoch))
    /\ (op = "maybe_from_gregorian_tai" /\ inp[2] = <<1980, 1, 6, 0, 0, 19, 0>>) =>
          out = Ok(EpochVal(GpsEpoch))

C23_Witness ==
    /\ op = "from_gpst_seconds"
    /\ inp = F64(Sec(0, 0))
    /\ prev[2] = EpochVal(Dur(0, 29224, 19, 0))
    /\ out = EpochVal(Dur(0, 29224, 19, 0))

\* C24: (e + d) - e is d, (e + d) - d is e, e - e is ZERO; adding 3600 s and
\* then subtracting Unit::Hour returns the original epoch, also across a
\* leap second.
C24_EpochArithmetic ==
    /\ op = "sub_epoch" => out = prev[2][3]
    /\ op = "sub_duration" =>
          /\ out = prev[2][2]
          /\ inp[3][2] = UnitSecond(3600) =>
                EpochVal(EpochSubDuration(EpochOf(inp[2]), UnitHour(1))) = prev[2][2]
    /\ op = "sub_self" => out = <<"Duration", ZERO>>

C24_Witness ==
    /\ op = "sub_duration"
    /\ prev[3] = EpochVal(Dur(1, 6209, 3600, 0))
    /\ inp[3] = <<"Duration", UnitSecond(3600)>>
    /\ out = EpochVal(Dur(1, 6209, 0, 0))

\* C27: is_leap_year(y) is true exactly when y is a multiple of 4 and not of
\* 100, or a multiple of 400, for every i32 year, the negative ones
\* included; every block of 400 years has 97 leap years; 1900 and 2100 are
\* not leap years, 2000 and 2400 are.
C27_LeapYearRule ==
    op = "is_leap_year" =>
        LET y == inp[2]
        IN  /\ out[2] = ( (y % 4 = 0 /\ y % 100 # 0) \/ y % 400 = 0 )
            /\ (y > -1000000 /\ y < 1000000) =>
                  Cardinality({ yy \in y..(y + 399) : is_leap_year(yy) }) = 97
            /\ y \in { 1900, 2100 } => out[2] = FALSE
            /\ y \in { 2000, 2400 } => out[2] = TRUE

C27_Witness ==
    /\ op = "is_leap_year"
    /\ inp = <<"Year", -400>>
    /\ out = <<"Bool", TRUE>>

\* lexicographic order of two Gregorian dates
LexLess(a, b) ==
    \E i \in 1..7 : a[i] < b[i] /\ \A j \in 1..(i - 1) : a[j] = b[j]

\* a is before b
Earlier(a, b) == DurSub(a, b)[1] < 0

\* dates the result of the constructor is compared with
ReferenceDates ==
    { <<1900, 1, 1, 0, 0, 0, 0>>, <<2000, 1, 1, 12, 0, 0, 0>>,
      <<2012, 3, 1, 0, 0, 0, 0>>, <<2017, 1, 1, 0, 0, 0, 0>> }

\* C28: on the dates accepted by is_gregorian_valid with second <= 59 the
\* Gregorian constructor is strictly increasing: if A is before B in
\* lexicographic order then from_gregorian_tai(A) is before
\* from_gregorian_tai(B), so distinct dates never give the same Epoch, and a
\* date in 1899 gives an Epoch before J1900.
C28_StrictlyIncreasing ==
    ( /\ op = "maybe_from_gregorian_tai"
      /\ is_gregorian_valid(inp[2])
      /\ inp[2][6] <= 59 ) =>
        LET a == inp[2]
            ea == EpochOf(out)
        IN  /\ \A b \in ReferenceDates :
                  LET eb == EpochOf(maybe_from_gregorian_tai(b))
                  IN  /\ LexLess(a, b) => Earlier(ea, eb)
                      /\ LexLess(b, a) => Earlier(eb, ea)
                      /\ a # b => ea # eb
            /\ a[1] < 1900 => ea[1] < 0

\* C29: for every valid date maybe_from_gregorian(date, ET) is exactly
\* 32_184_935 us before maybe_from_gregorian(date, TAI); the instant is not
\* shifted by ET_EPOCH_S.
C29_EtDateNextToTaiDate ==
    ( /\ op = "maybe_from_gregorian"
      /\ inp[3] = "ET"
      /\ is_gregorian_valid(inp[2]) ) =>
        out = Ok(EpochVal(DurSub(EpochOf(maybe_from_gregorian(inp[2], "TAI", 0)),
                                 UnitMicrosecond(ET_OFFSET_US))))

\* C30: for every real Gregorian UTC date of the years 1900 to 2027 with
\* second <= 59 and no nanoseconds, from_gregorian_utc(date).as_gregorian_utc()
\* is the date, the last minute before and the first minute after each leap
\* second included.
C30_GregorianUtcRoundTrip ==
    ( /\ op = "as_gregorian_utc"
      /\ prev[1] = "maybe_from_gregorian_utc"
      /\ prev[2][2][1] \in 1900..2027
      /\ RealDateTime(prev[2][2])
      /\ prev[2][2][7] = 0 ) => out = <<"Greg", prev[2][2]>>

====
